---- MODULE Spec2Model ----
(* Model of prompt_toolkit/filters/cli.py: the filters that take a          *)
(* CommandLineInterface and report a boolean about it.                      *)
EXTENDS Integers, Sequences, FiniteSets, TLC

VARIABLES cli, filters, called, result, trace

vars == <<cli, filters, called, result, trace>>

(* ---------------- bounds ---------------- *)

MaxFocusStack == 2

(* ---------------- enums read by the filters ---------------- *)

EditingMode_VI == "vi"
EditingMode_EMACS == "emacs"
EditingModes == {EditingMode_EMACS, EditingMode_VI}

ViInputMode_INSERT == "insert"
ViInputMode_NAVIGATION == "navigation"
ViInputMode_REPLACE == "replace"
ViInputMode_INSERT_MULTIPLE == "insert-multiple"
ViInputModes ==
    {ViInputMode_INSERT, ViInputMode_NAVIGATION, ViInputMode_REPLACE,
     ViInputMode_INSERT_MULTIPLE}

TerminatedAs == {"none", "returning", "aborting", "exiting"}

BufferNames == {"DEFAULT_BUFFER", "SEARCH_BUFFER"}

\* Python's None, and the truth value of an object reference.
None == "None"
bool(x) == x # None

(* ---------------- the CommandLineInterface the filters read ------------- *)

RECURSIVE SeqsUpTo(_, _)
SeqsUpTo(S, n) ==
    IF n = 0 THEN {<<>>}
    ELSE LET shorter == SeqsUpTo(S, n - 1)
         IN  shorter \cup {Append(q, x) : q \in shorter, x \in S}

FocusStacks == SeqsUpTo(BufferNames, MaxFocusStack) \ {<<>>}

DefaultCli ==
    [current_buffer_name |-> "DEFAULT_BUFFER",
     focus_stack         |-> <<"DEFAULT_BUFFER">>,
     selection_state     |-> None,
     complete_state      |-> None,
     is_multiline        |-> FALSE,
     read_only           |-> FALSE,
     validation_error    |-> None,
     arg                 |-> None,
     is_searching        |-> FALSE,
     terminated_as       |-> "none",
     height_is_known     |-> FALSE,
     editing_mode        |-> EditingMode_EMACS,
     input_mode          |-> ViInputMode_INSERT,
     operator_func       |-> None,
     waiting_for_digraph |-> FALSE]

\* Every combination of the fields the Vi filters read.
ViSnapshots ==
    {[DefaultCli EXCEPT !.editing_mode = e, !.input_mode = m,
                        !.operator_func = o, !.waiting_for_digraph = w,
                        !.read_only = r, !.terminated_as = t] :
        e \in EditingModes, m \in ViInputModes,
        o \in {None, "delete_operator"}, w \in BOOLEAN, r \in BOOLEAN,
        t \in TerminatedAs}

\* Every combination of the remaining fields.
AppSnapshots ==
    {[DefaultCli EXCEPT !.current_buffer_name = fs[Len(fs)],
                        !.focus_stack = fs,
                        !.selection_state = sel, !.complete_state = cs,
                        !.is_multiline = ml, !.validation_error = ve,
                        !.arg = a, !.is_searching = se,
                        !.terminated_as = t, !.height_is_known = h] :
        fs \in FocusStacks,
        sel \in {None, "SelectionState"}, cs \in {None, "CompletionState"},
        ml \in BOOLEAN, ve \in {None, "ValidationError"},
        a \in {None, "2"}, se \in BOOLEAN, t \in TerminatedAs,
        h \in BOOLEAN}

cli_is_returning(c) == c.terminated_as = "returning"
cli_is_aborting(c) == c.terminated_as = "aborting"
cli_is_exiting(c) == c.terminated_as = "exiting"
cli_is_done(c) == cli_is_exiting(c) \/ cli_is_aborting(c) \/ cli_is_returning(c)

(* ---------------- the filter objects ---------------- *)

NoArg == ""

ConstructedFilters ==
    <<[cls |-> "HasFocus", arg |-> "DEFAULT_BUFFER"],
      [cls |-> "HasFocus", arg |-> "SEARCH_BUFFER"],
      [cls |-> "HasFocus", arg |-> "SYSTEM_BUFFER"],
      [cls |-> "InFocusStack", arg |-> "DEFAULT_BUFFER"],
      [cls |-> "InFocusStack", arg |-> "SEARCH_BUFFER"],
      [cls |-> "InFocusStack", arg |-> "SYSTEM_BUFFER"],
      [cls |-> "HasSelection", arg |-> NoArg],
      [cls |-> "HasCompletions", arg |-> NoArg],
      [cls |-> "IsMultiline", arg |-> NoArg],
      [cls |-> "IsReadOnly", arg |-> NoArg],
      [cls |-> "HasValidationError", arg |-> NoArg],
      [cls |-> "HasArg", arg |-> NoArg],
      [cls |-> "HasSearch", arg |-> NoArg],
      [cls |-> "IsReturning", arg |-> NoArg],
      [cls |-> "IsAborting", arg |-> NoArg],
      [cls |-> "IsExiting", arg |-> NoArg],
      [cls |-> "IsDone", arg |-> NoArg],
      [cls |-> "RendererHeightIsKnown", arg |-> NoArg],
      [cls |-> "InViMode", arg |-> ViInputMode_INSERT],
      [cls |-> "InViMode", arg |-> ViInputMode_NAVIGATION],
      [cls |-> "InViMode", arg |-> ViInputMode_REPLACE],
      [cls |-> "InViMode", arg |-> ViInputMode_INSERT_MULTIPLE],
      [cls |-> "InViMode", arg |-> "visual"],
      [cls |-> "InEditingMode", arg |-> EditingMode_VI],
      [cls |-> "InEditingMode", arg |-> EditingMode_EMACS],
      [cls |-> "CanInsert", arg |-> NoArg]>>

FilterIds == DOMAIN ConstructedFilters

Instances(cls) == {i \in FilterIds : ConstructedFilters[i].cls = cls}

(* ---------------- __call__ of each filter: the value returned ----------- *)

HasFocus(self, c) == c.current_buffer_name = self.arg

RECURSIVE Contains(_, _, _)
Contains(x, seq, k) ==
    IF k > Len(seq) THEN FALSE
    ELSE IF seq[k] = x THEN TRUE
    ELSE Contains(x, seq, k + 1)

InFocusStack(self, c) == Contains(self.arg, c.focus_stack, 1)

HasSelection(c) == bool(c.selection_state)

HasCompletions(c) == c.complete_state # None

IsMultiline(c) == c.is_multiline

IsReadOnly(c) == c.read_only

HasValidationError(c) == c.validation_error # None

HasArg(c) == c.arg # None

HasSearch(c) == c.is_searching

IsReturning(c) == cli_is_returning(c)

IsAborting(c) == cli_is_aborting(c)

IsExiting(c) == cli_is_exiting(c)

\* IsDone.__call__ reading the attribute of the neighbouring filter.
IsDone_returning(c) == cli_is_returning(c)

IsDone(c) == cli_is_done(c)

RendererHeightIsKnown(c) == c.height_is_known

\* InViMode.__call__ without the digraph test.
InViMode_nodigraph(self, c) ==
    IF bool(c.operator_func)
    THEN FALSE
    ELSE LET input_mode == IF c.read_only THEN ViInputMode_NAVIGATION
                           ELSE c.input_mode
         IN  input_mode = self.arg

\* InViMode.__call__ comparing the recorded mode, read-only or not.
InViMode_rawmode(self, c) ==
    IF bool(c.operator_func) \/ c.waiting_for_digraph
    THEN FALSE
    ELSE c.input_mode = self.arg

\* InViMode.__call__ answering True for NAVIGATION on a read-only buffer
\* and falling through to the recorded mode otherwise.
InViMode_fallthrough(self, c) ==
    IF bool(c.operator_func) \/ c.waiting_for_digraph
    THEN FALSE
    ELSE IF c.read_only /\ self.arg = ViInputMode_NAVIGATION THEN TRUE
    ELSE c.input_mode = self.arg

InViMode(self, c) ==
    IF bool(c.operator_func) \/ c.waiting_for_digraph
    THEN FALSE
    ELSE LET input_mode == IF c.read_only THEN ViInputMode_NAVIGATION
                           ELSE c.input_mode
         IN  input_mode = self.arg

InEditingMode(self, c) == c.editing_mode = self.arg

\* CanInsert.__call__ without the pending-operator test.
CanInsert_nooperator(c) ==
    c.editing_mode # EditingMode_VI \/ c.input_mode = ViInputMode_INSERT

\* CanInsert.__call__ comparing against the wrong input mode.
CanInsert_navigation(c) ==
    c.editing_mode # EditingMode_VI
        \/ (~bool(c.operator_func) /\ c.input_mode = ViInputMode_NAVIGATION)

CanInsert(c) ==
    c.editing_mode # EditingMode_VI
        \/ (~bool(c.operator_func) /\ c.input_mode = ViInputMode_INSERT)

(* ---------------- dynamic dispatch of f(cli) ---------------- *)

Call(i, c) ==
    LET self == filters[i]
    IN  CASE self.cls = "HasFocus" -> HasFocus(self, c)
          [] self.cls = "InFocusStack" -> InFocusStack(self, c)
          [] self.cls = "HasSelection" -> HasSelection(c)
          [] self.cls = "HasCompletions" -> HasCompletions(c)
          [] self.cls = "IsMultiline" -> IsMultiline(c)
          [] self.cls = "IsReadOnly" -> IsReadOnly(c)
          [] self.cls = "HasValidationError" -> HasValidationError(c)
          [] self.cls = "HasArg" -> HasArg(c)
          [] self.cls = "HasSearch" -> HasSearch(c)
          [] self.cls = "IsReturning" -> IsReturning(c)
          [] self.cls = "IsAborting" -> IsAborting(c)
          [] self.cls = "IsExiting" -> IsExiting(c)
          [] self.cls = "IsDone" -> IsDone(c)
          [] self.cls = "RendererHeightIsKnown" -> RendererHeightIsKnown(c)
          [] self.cls = "InViMode" -> InViMode(self, c)
          [] self.cls = "InEditingMode" -> InEditingMode(self, c)
          [] self.cls = "CanInsert" -> CanInsert(c)

(* ---------------- state machine: one evaluation per step --------------- *)

NoCall == [op |-> "none", f |-> 0, g |-> 0]

Init ==
    /\ cli \in ViSnapshots \cup AppSnapshots
    /\ filters = ConstructedFilters
    /\ called = NoCall
    /\ result = FALSE
    /\ trace = <<>>

\* The caller receives r from filter i.
Return(i, r) ==
    /\ called' = [op |-> "call", f |-> i, g |-> 0]
    /\ result' = r
    /\ trace' = <<i>>

EvalHasFocus ==
    \E i \in Instances("HasFocus") :
        /\ Return(i, HasFocus(filters[i], cli))
        /\ UNCHANGED <<cli, filters>>

EvalInFocusStack ==
    \E i \in Instances("InFocusStack") :
        /\ Return(i, InFocusStack(filters[i], cli))
        /\ UNCHANGED <<cli, filters>>

EvalHasSelection ==
    \E i \in Instances("HasSelection") :
        /\ Return(i, HasSelection(cli))
        /\ UNCHANGED <<cli, filters>>

EvalHasCompletions ==
    \E i \in Instances("HasCompletions") :
        /\ Return(i, HasCompletions(cli))
        /\ UNCHANGED <<cli, filters>>

EvalIsMultiline ==
    \E i \in Instances("IsMultiline") :
        /\ Return(i, IsMultiline(cli))
        /\ UNCHANGED <<cli, filters>>

EvalIsReadOnly ==
    \E i \in Instances("IsReadOnly") :
        /\ Return(i, IsReadOnly(cli))
        /\ UNCHANGED <<cli, filters>>

EvalHasValidationError ==
    \E i \in Instances("HasValidationError") :
        /\ Return(i, HasValidationError(cli))
        /\ UNCHANGED <<cli, filters>>

EvalHasArg ==
    \E i \in Instances("HasArg") :
        /\ Return(i, HasArg(cli))
        /\ UNCHANGED <<cli, filters>>

EvalHasSearch ==
    \E i \in Instances("HasSearch") :
        /\ Return(i, HasSearch(cli))
        /\ UNCHANGED <<cli, filters>>

EvalIsReturning ==
    \E i \in Instances("IsReturning") :
        /\ Return(i, IsReturning(cli))
        /\ UNCHANGED <<cli, filters>>

EvalIsAborting ==
    \E i \in Instances("IsAborting") :
        /\ Return(i, IsAborting(cli))
        /\ UNCHANGED <<cli, filters>>

EvalIsExiting ==
    \E i \in Instances("IsExiting") :
        /\ Return(i, IsExiting(cli))
        /\ UNCHANGED <<cli, filters>>

EvalIsDone ==
    \E i \in Instances("IsDone") :
        /\ Return(i, IsDone(cli))
        /\ UNCHANGED <<cli, filters>>

EvalRendererHeightIsKnown ==
    \E i \in Instances("RendererHeightIsKnown") :
        /\ Return(i, RendererHeightIsKnown(cli))
        /\ UNCHANGED <<cli, filters>>

\* A version of InViMode.__call__ that stores the forced mode in vi_state
\* instead of a local variable.
EvalInViMode_writeback ==
    \E i \in Instances("InViMode") :
        /\ Return(i, InViMode(filters[i], cli))
        /\ cli' = IF ~bool(cli.operator_func) /\ ~cli.waiting_for_digraph
                     /\ cli.read_only
                  THEN [cli EXCEPT !.input_mode = ViInputMode_NAVIGATION]
                  ELSE cli
        /\ UNCHANGED filters

EvalInViMode ==
    \E i \in Instances("InViMode") :
        /\ Return(i, InViMode(filters[i], cli))
        /\ UNCHANGED <<cli, filters>>

EvalInEditingMode ==
    \E i \in Instances("InEditingMode") :
        /\ Return(i, InEditingMode(filters[i], cli))
        /\ UNCHANGED <<cli, filters>>

EvalCanInsert ==
    \E i \in Instances("CanInsert") :
        /\ Return(i, CanInsert(cli))
        /\ UNCHANGED <<cli, filters>>

Next ==
    \/ EvalHasFocus
    \/ EvalInFocusStack
    \/ EvalHasSelection
    \/ EvalHasCompletions
    \/ EvalIsMultiline
    \/ EvalIsReadOnly
    \/ EvalHasValidationError
    \/ EvalHasArg
    \/ EvalHasSearch
    \/ EvalIsReturning
    \/ EvalIsAborting
    \/ EvalIsExiting
    \/ EvalIsDone
    \/ EvalRendererHeightIsKnown
    \/ EvalInViMode
    \/ EvalInEditingMode
    \/ EvalCanInsert

Spec == Init /\ [][Next]_vars

(* ---------------- composite filters: f & g, f | g, ~f ---------------- *)

\* all(f(cli) for f in fs): stops at the first filter that returns False.
\* all(...) over a list instead of a generator: every filter is called.
RECURSIVE AllCall_eager(_, _, _)
AllCall_eager(fs, c, k) ==
    IF k > Len(fs) THEN [ret |-> TRUE, seen |-> <<>>]
    ELSE LET rest == AllCall_eager(fs, c, k + 1)
         IN  [ret |-> Call(fs[k], c) /\ rest.ret,
              seen |-> <<fs[k]>> \o rest.seen]

RECURSIVE AllCall(_, _, _)
AllCall(fs, c, k) ==
    IF k > Len(fs) THEN [ret |-> TRUE, seen |-> <<>>]
    ELSE IF ~Call(fs[k], c) THEN [ret |-> FALSE, seen |-> <<fs[k]>>]
    ELSE LET rest == AllCall(fs, c, k + 1)
         IN  [ret |-> rest.ret, seen |-> <<fs[k]>> \o rest.seen]

\* any(f(cli) for f in fs): stops at the first filter that returns True.
RECURSIVE AnyCall(_, _, _)
AnyCall(fs, c, k) ==
    IF k > Len(fs) THEN [ret |-> FALSE, seen |-> <<>>]
    ELSE IF Call(fs[k], c) THEN [ret |-> TRUE, seen |-> <<fs[k]>>]
    ELSE LET rest == AnyCall(fs, c, k + 1)
         IN  [ret |-> rest.ret, seen |-> <<fs[k]>> \o rest.seen]

InvertCall(f, c) == [ret |-> ~Call(f, c), seen |-> <<f>>]

\* The filters combined in this model: those that read the Vi fields.
ComposeOperands ==
    Instances("InViMode") \cup Instances("CanInsert")
        \cup Instances("InEditingMode") \cup Instances("IsReadOnly")

ComposeSnapshots == {s \in ViSnapshots : s.terminated_as = "none"}

EvalAnd ==
    \E f \in ComposeOperands, g \in ComposeOperands :
        LET r == AllCall(<<f, g>>, cli, 1)
        IN  /\ called' = [op |-> "and", f |-> f, g |-> g]
            /\ result' = r.ret
            /\ trace' = r.seen
            /\ UNCHANGED <<cli, filters>>

EvalOr ==
    \E f \in ComposeOperands, g \in ComposeOperands :
        LET r == AnyCall(<<f, g>>, cli, 1)
        IN  /\ called' = [op |-> "or", f |-> f, g |-> g]
            /\ result' = r.ret
            /\ trace' = r.seen
            /\ UNCHANGED <<cli, filters>>

EvalNot ==
    \E f \in ComposeOperands :
        LET r == InvertCall(f, cli)
        IN  /\ called' = [op |-> "not", f |-> f, g |-> 0]
            /\ result' = r.ret
            /\ trace' = r.seen
            /\ UNCHANGED <<cli, filters>>

InitCompose ==
    /\ cli \in ComposeSnapshots
    /\ filters = ConstructedFilters
    /\ called = NoCall
    /\ result = FALSE
    /\ trace = <<>>

NextCompose == EvalAnd \/ EvalOr \/ EvalNot

SpecCompose == InitCompose /\ [][NextCompose]_vars

(* ---------------- properties ---------------- *)

Evaluated(cls) == called.op = "call" /\ filters[called.f].cls = cls

Self == filters[called.f]

Pending(c) == bool(c.operator_func) \/ c.waiting_for_digraph

EffectiveInputMode(c) ==
    IF c.read_only THEN ViInputMode_NAVIGATION ELSE c.input_mode

InViModeOf(m, c) == InViMode([cls |-> "InViMode", arg |-> m], c)

\* C1: while an operator is pending or a digraph is awaited, InViMode(m)
\* evaluates to False for every mode m, whatever editing_mode, read_only and
\* input_mode are.
C1_PendingReportsFalse ==
    (Evaluated("InViMode") /\ Pending(cli)) => result = FALSE

C1_Witness ==
    /\ Evaluated("InViMode")
    /\ Self.arg = ViInputMode_NAVIGATION
    /\ cli.read_only
    /\ cli.waiting_for_digraph
    /\ ~bool(cli.operator_func)
    /\ result = FALSE

\* C2: on a read-only buffer with nothing pending, InViMode('navigation') is
\* True for every recorded input mode and InViMode(m) is False for every
\* other m.
C2_ReadOnlyIsNavigation ==
    (Evaluated("InViMode") /\ cli.read_only /\ ~Pending(cli))
        => result = (Self.arg = ViInputMode_NAVIGATION)

C2_Witness ==
    /\ Evaluated("InViMode")
    /\ Self.arg = ViInputMode_NAVIGATION
    /\ cli.read_only
    /\ ~Pending(cli)
    /\ cli.input_mode = ViInputMode_INSERT
    /\ result = TRUE

\* C3: InViMode(m) is True exactly when the editing mode is Vi, nothing is
\* pending and the effective input mode equals m; in particular it is False
\* whenever the editing mode is Emacs.
C3_OnlyInViEditingMode ==
    Evaluated("InViMode")
        => result = (/\ cli.editing_mode = EditingMode_VI
                     /\ ~Pending(cli)
                     /\ EffectiveInputMode(cli) = Self.arg)

\* C4: CanInsert equals (editing_mode != vi) or (no operator pending and the
\* recorded input mode is insert), and does not depend on waiting_for_digraph
\* or read_only.
C4_CanInsertFormula ==
    /\ Evaluated("CanInsert")
        => result = (\/ cli.editing_mode # EditingMode_VI
                     \/ (/\ ~bool(cli.operator_func)
                         /\ cli.input_mode = ViInputMode_INSERT))
    /\ cli.editing_mode = EditingMode_EMACS => CanInsert(cli)
    /\ \A w \in BOOLEAN, r \in BOOLEAN :
           CanInsert([cli EXCEPT !.waiting_for_digraph = w, !.read_only = r])
               = CanInsert(cli)

C4_Witness ==
    /\ Evaluated("CanInsert")
    /\ cli.editing_mode = EditingMode_VI
    /\ cli.input_mode = ViInputMode_INSERT
    /\ ~bool(cli.operator_func)
    /\ cli.waiting_for_digraph
    /\ ~cli.read_only
    /\ result = TRUE

C6_DoneIsAnyTermination ==
    /\ Evaluated("IsDone")
        => result = (IsReturning(cli) \/ IsAborting(cli) \/ IsExiting(cli))
    /\ IsDone(cli) = (IsReturning(cli) \/ IsAborting(cli) \/ IsExiting(cli))
    /\ cli.terminated_as = "aborting"
        => (IsAborting(cli) /\ ~IsReturning(cli) /\ IsDone(cli))
    /\ cli.terminated_as = "none"
        => (/\ ~IsReturning(cli) /\ ~IsAborting(cli)
            /\ ~IsExiting(cli) /\ ~IsDone(cli))

C6_Witness ==
    /\ Evaluated("IsDone")
    /\ cli.terminated_as = "aborting"
    /\ result = TRUE

\* C7: evaluating a filter changes neither the CommandLineInterface nor the
\* parameters of any filter, so evaluating the same filter again gives the
\* same boolean.
C7_EvaluationIsReadOnly ==
    [][/\ cli' = cli
       /\ filters' = filters
       /\ (called.op = "call" /\ called'.op = "call" /\ called'.f = called.f)
            => result' = result]_vars

C7_Witness ==
    /\ Evaluated("InViMode")
    /\ Self.arg = ViInputMode_NAVIGATION
    /\ cli.read_only
    /\ ~Pending(cli)
    /\ cli.input_mode = ViInputMode_REPLACE
    /\ cli.editing_mode = EditingMode_VI
    /\ result = TRUE

\* C8: f & g, f | g and ~f evaluate to the conjunction, disjunction and
\* negation of their operands' values, and f & g does not call g when f is
\* false.
C8_CompositesAreConnectives ==
    /\ called.op = "and"
        => /\ result = (Call(called.f, cli) /\ Call(called.g, cli))
           /\ trace[1] = called.f
           /\ ~Call(called.f, cli) => trace = <<called.f>>
    /\ called.op = "or"
        => result = (Call(called.f, cli) \/ Call(called.g, cli))
    /\ called.op = "not"
        => result = ~Call(called.f, cli)

C8_Witness ==
    /\ called.op = "and"
    /\ called.f # called.g
    /\ ~Call(called.f, cli)
    /\ Call(called.g, cli)
    /\ result = FALSE
    /\ trace = <<called.f>>

\* C9: no two distinct modes satisfy InViMode in the same state, and exactly
\* one does when nothing is pending.
C9_AtMostOneMode ==
    LET holding == {i \in Instances("InViMode") : InViMode(filters[i], cli)}
    IN  /\ \A i \in holding, j \in holding :
               filters[i].arg = filters[j].arg
        /\ ~Pending(cli) => Cardinality(holding) = 1

C9_Witness ==
    /\ Evaluated("InViMode")
    /\ Self.arg = ViInputMode_NAVIGATION
    /\ cli.read_only
    /\ ~Pending(cli)
    /\ cli.input_mode = ViInputMode_INSERT_MULTIPLE
    /\ result = TRUE

\* C10: InViMode('insert') implies CanInsert; in Vi mode with recorded input
\* mode insert and no operator pending, CanInsert is True although
\* InViMode('insert') is False when a digraph is awaited or the buffer is
\* read-only.
C10_InsertModeImpliesCanInsert ==
    /\ InViModeOf(ViInputMode_INSERT, cli) => CanInsert(cli)
    /\ (/\ cli.editing_mode = EditingMode_VI
        /\ cli.input_mode = ViInputMode_INSERT
        /\ ~bool(cli.operator_func)
        /\ (cli.waiting_for_digraph \/ cli.read_only))
        => (CanInsert(cli) /\ ~InViModeOf(ViInputMode_INSERT, cli))

C10_Witness ==
    /\ Evaluated("CanInsert")
    /\ cli.editing_mode = EditingMode_VI
    /\ cli.input_mode = ViInputMode_INSERT
    /\ ~bool(cli.operator_func)
    /\ cli.read_only
    /\ ~cli.waiting_for_digraph
    /\ result = TRUE

====
